---- MODULE Spec2Model ----
(***************************************************************************)
(* The <github-repos> custom element of GitGlue / github-portfolio.        *)
(*                                                                         *)
(* State: the element's shadow root (display), whether it is in the        *)
(* document, and one record per call of the async method render (a render  *)
(* pass) with the state of its fetch promises and its position in the      *)
(* method.  The "user" attribute is an input of connectedCallback, and     *)
(* what the clock shows is an input of the step that builds the content.   *)
(* The GitHub side (the user's public repositories and events) is fixed by *)
(* Init.  Three variants of the script exist in the repository; the        *)
(* variable variant says which one is loaded.                              *)
(***************************************************************************)
EXTENDS Integers, Sequences, FiniteSets, TLC

VARIABLES
  variant,    \* which script is loaded: "two", "log" or "graph"
  github,     \* [repos, events]: the user's public data on the API side
  connected,  \* the element is in the document
  display,    \* this.shadowRoot.innerHTML, parsed
  passes      \* the calls of render(user), in the order they started

vars == <<variant, github, connected, display, passes>>

----------------------------------------------------------------------------
(* Bounds *)

MaxPasses == 2        \* render passes of one element
MaxFairPasses == 1    \* render passes of one element (fair specification)
MaxRepos == 2         \* repositories in a fetched list (data specification)
MaxDate == 2          \* distinct updated_at instants
MaxQueryLen == 2      \* characters typed into the search box
MaxPublicRepos == 101 \* public repositories of the user (paging specification)

(* Program constants *)

PER_PAGE == 100       \* per_page=100 of the repos and events requests

----------------------------------------------------------------------------
(* Strings are sequences of characters. *)

Null == <<"null">>            \* JSON null / a missing property
Quote == "\""
Chars == {"a", "b", "B", Quote}

Falsy(s) == s = Null \/ s = <<>>

\* String.prototype.toLowerCase, on the characters of the model
LowerChar(c) == IF c = "B" THEN "b" ELSE c
toLowerCase(s) == [i \in 1..Len(s) |-> LowerChar(s[i])]

\* String.prototype.includes
includes(s, q) ==
  \E i \in 0..(Len(s) - Len(q)) : SubSeq(s, i + 1, i + Len(q)) = q

\* The value of a double-quoted attribute as the HTML parser reads it back
\* from the template text  data-x="${s}": it ends at the first quote of s.
RECURSIVE AttrValue(_)
AttrValue(s) ==
  IF s = <<>> \/ Head(s) = Quote THEN <<>>
  ELSE <<Head(s)>> \o AttrValue(Tail(s))

Min(a, b) == IF a <= b THEN a ELSE b

----------------------------------------------------------------------------
(* The API side *)

Variants == {"two", "log", "graph"}
AllEndpoints == {"profile", "repos", "events"}

\* The endpoints one pass fetches: two in the first variant, three in the others
Endpoints(v) == IF v = "two" THEN {"profile", "repos"} ELSE AllEndpoints

\* Array.prototype.sort in buildHTML is absent from the two-endpoint variant
Sorts(v) == v # "two"

\* /users/{user}/repos?sort=updated&per_page=100: the first page only
ReposBody(g) == SubSeq(g.repos, 1, Min(Len(g.repos), PER_PAGE))

\* /users/{user}/events?per_page=100
EventsBody(g) == SubSeq(g.events, 1, Min(Len(g.events), PER_PAGE))

----------------------------------------------------------------------------
(* buildHTML and buildRepoCard *)

\* new Date(iso) as milliseconds, updated_at counted in seconds
DateMs(t) == t * 1000

\* the comparator of repos.sort: negative when a goes first
CompareUpdated(a, b) == DateMs(b.updated_at) - DateMs(a.updated_at)

\* insert x into a sorted list after every element that does not compare
\* greater (Array.prototype.sort is stable)
RECURSIVE InsertSorted(_, _)
InsertSorted(x, s) ==
  IF s = <<>> THEN <<x>>
  ELSE IF CompareUpdated(Head(s), x) <= 0
       THEN <<Head(s)>> \o InsertSorted(x, Tail(s))
       ELSE <<x>> \o s

RECURSIVE SortByUpdated(_)
SortByUpdated(s) ==
  IF s = <<>> THEN <<>>
  ELSE InsertSorted(s[Len(s)], SortByUpdated(SubSeq(s, 1, Len(s) - 1)))

(* Instants.  Milliseconds since the epoch do not fit TLC's integers, so an
   instant is kept as its whole seconds and the milliseconds within the
   second; JavaScript computes on the same value as one exact number. *)

\* new Date(iso) of an API timestamp: the API gives whole seconds
NewDate(t) == [s |-> t, ms |-> 0]

\* Math.floor((a - b) / 1000)
FloorSeconds(a, b) == (a.s - b.s) + ((a.ms - b.ms) \div 1000)

\* a < b on Date objects
DateLess(a, b) == a.s < b.s \/ (a.s = b.s /\ a.ms < b.ms)

\* the intervals of timeAgo, in the order of the array
Intervals ==
  <<[label |-> "year",   seconds |-> 31536000],
    [label |-> "month",  seconds |-> 2592000],
    [label |-> "day",    seconds |-> 86400],
    [label |-> "hour",   seconds |-> 3600],
    [label |-> "minute", seconds |-> 60]>>

\* the words of a relative time: 'just now', or count, unit, plural, 'ago'
JustNow == [count |-> 0, label |-> "", plural |-> "", word |-> "just now"]

\* an AgoText that gives every count the plural
AgoTextAlwaysPlural(count, label) ==
  [count |-> count, label |-> label, plural |-> "s", word |-> "ago"]

\* `${count} ${interval.label}${count > 1 ? 's' : ''} ago`
AgoText(count, label) ==
  [count |-> count, label |-> label,
   plural |-> IF count > 1 THEN "s" ELSE "", word |-> "ago"]

\* the loop of timeAgo from interval i on
RECURSIVE AgoFrom(_, _)
AgoFrom(seconds, i) ==
  IF i > Len(Intervals) THEN JustNow
  ELSE LET count == seconds \div Intervals[i].seconds
       IN  IF count >= 1 THEN AgoText(count, Intervals[i].label)
           ELSE AgoFrom(seconds, i + 1)

\* timeAgo(date), called when the clock (new Date()) shows now
timeAgo(now, date) == AgoFrom(FloorSeconds(now, date), 1)

(* Repository cards *)

NullLang == "<null>"        \* repo.language is null

\* the languages of the table that the model uses, and their colours
LANG_COLORS ==
  [l \in {"JavaScript", "Python", "Stata"} |->
     CASE l = "JavaScript" -> "#f1e05a"
       [] l = "Python" -> "#3572A5"
       [] l = "Stata" -> "#1a5f91"]

DefaultColor == "#8b949e"
NoBadge == <<>>

\* LANG_COLORS[repo.language] || '#8b949e'
LangColor(language) ==
  IF language \in DOMAIN LANG_COLORS THEN LANG_COLORS[language]
  ELSE DefaultColor

\* a language badge for every repository, null language included
LangBadgeAlways(language) ==
  <<[language |-> language, color |-> LangColor(language)]>>

\* const lang = repo.language ? `<span class="lang">...` : ''
LangBadge(language) ==
  IF language \in {NullLang, ""} THEN NoBadge
  ELSE <<[language |-> language, color |-> LangColor(language)]>>

\* const stars = repo.stargazers_count ? `<a ... class="stat">${count}` : ''
\* (and the same for forks_count)
StatBadge(count) == IF count = 0 THEN NoBadge ELSE <<count>>

\* repo.name.toLowerCase() throws a TypeError when the name is missing
CardThrows(repo) == repo.name = Null

\* the <article class="repo"> element of one repository, as parsed from the
\* template: its dataset, its style.display, the repository it shows and
\* the parts of the card
buildRepoCard(repo, now) ==
  [name  |-> AttrValue(toLowerCase(repo.name)),
   desc  |-> AttrValue(toLowerCase(IF Falsy(repo.description) THEN <<>>
                                   ELSE repo.description)),
   shown |-> TRUE,
   repo  |-> repo,
   forkBadge |-> repo.fork,
   descPara  |-> IF Falsy(repo.description) THEN NoBadge
                 ELSE <<repo.description>>,
   lang    |-> LangBadge(repo.language),
   stars   |-> StatBadge(repo.stargazers_count),
   forks   |-> StatBadge(repo.forks_count),
   updated |-> timeAgo(now, NewDate(repo.updated_at))]

\* the order in which buildHTML maps the repositories to cards
CardOrder(v, repos) == IF Sorts(v) THEN SortByUpdated(repos) ELSE repos

BuildThrows(repos) == \E i \in 1..Len(repos) : CardThrows(repos[i])

buildCards(v, repos, now) ==
  LET sorted == CardOrder(v, repos)
  IN  [i \in 1..Len(sorted) |-> buildRepoCard(sorted[i], now)]

----------------------------------------------------------------------------
(* The activity log (three-endpoint variant with the log) *)

UpperChar(c) == IF c = "b" THEN "B" ELSE IF c = "o" THEN "O" ELSE c

\* capitalize(str): str ? str.charAt(0).toUpperCase() + str.slice(1) : ''
capitalize(str) ==
  IF Falsy(str) THEN <<>> ELSE <<UpperChar(Head(str))>> \o Tail(str)

\* the pieces of a sentence: plain text and <a> elements
Text(t) == [tag |-> "text", text |-> t, href |-> <<>>]
Anchor(href, text) == [tag |-> "a", text |-> text, href |-> href]

Unknown == <<"unknown">>

\* an event without a repository name is given no fallback
RepoFullNameRaw(event) == event.repo

\* event.repo?.name || 'unknown', as the segments between the slashes
RepoFullName(event) == IF Falsy(event.repo) THEN Unknown ELSE event.repo

\* repoFullName.split('/')[1] || repoFullName
RepoName(full) ==
  IF Len(full) >= 2 /\ full[2] # "" THEN <<full[2]>> ELSE full

\* `https://github.com/${repoFullName}`
RepoUrl(full) == <<"https://github.com">> \o full

\* <a href="${repoUrl}" ...>${repoName}</a>
RepoLink(event) ==
  Anchor(RepoUrl(RepoFullName(event)), RepoName(RepoFullName(event)))

\* an optional link after the sentence: x ? ` <a href=...>${text}</a>` : ''
ExtraLink(x, href, text) == IF Falsy(x) THEN <<>> ELSE <<Anchor(href, text)>>

\* switch (event.type) { ... } of formatEventDescription
Sentence(event, link, url) ==
  LET pl == event.payload
  IN  CASE event.type = "PushEvent" ->
             <<Text(<<"Pushed to">>), link>>
               \o ExtraLink(pl.head, url \o <<"commit">> \o pl.head,
                            SubSeq(pl.head, 1, Min(7, Len(pl.head))))
        [] event.type = "CreateEvent" ->
             LET refType == IF Falsy(pl.ref_type) THEN <<"repository">>
                            ELSE pl.ref_type
             IN  IF Falsy(pl.ref)
                 THEN <<Text(<<"Created">>), Text(refType), link>>
                 ELSE <<Text(<<"Created">>), Text(refType), Text(pl.ref),
                        Text(<<"in">>), link>>
        [] event.type = "DeleteEvent" ->
             <<Text(<<"Deleted">>), Text(pl.ref_type), Text(pl.ref),
               Text(<<"from">>), link>>
        [] event.type = "WatchEvent" -> <<Text(<<"Starred">>), link>>
        [] event.type = "ForkEvent" -> <<Text(<<"Forked">>), link>>
        [] event.type = "IssuesEvent" ->
             <<Text(capitalize(pl.action)), Text(<<"issue in">>), link>>
        [] event.type = "IssueCommentEvent" ->
             <<Text(<<"Commented on issue in">>), link>>
        [] event.type = "PullRequestEvent" ->
             <<Text(capitalize(pl.action)), Text(<<"PR in">>), link>>
               \o ExtraLink(pl.number, url \o <<"pull">> \o pl.number,
                            <<"#">> \o pl.number)
        [] event.type = "PullRequestReviewEvent" ->
             <<Text(<<"Reviewed PR in">>), link>>
               \o ExtraLink(pl.pr_number, url \o <<"pull">> \o pl.pr_number,
                            <<"#">> \o pl.pr_number)
        [] event.type = "PullRequestReviewCommentEvent" ->
             <<Text(<<"Commented on PR in">>), link>>
               \o ExtraLink(pl.pr_number, url \o <<"pull">> \o pl.pr_number,
                            <<"#">> \o pl.pr_number)
        [] event.type = "ReleaseEvent" ->
             <<Text(capitalize(pl.action)), Text(<<"release in">>), link>>
               \o ExtraLink(pl.tag_name,
                            url \o <<"releases", "tag">> \o pl.tag_name,
                            pl.tag_name)
        [] event.type = "PublicEvent" ->
             <<Text(<<"Made">>), link, Text(<<"public">>)>>
        [] OTHER -> <<Text(<<"Activity in">>), link>>

formatEventDescription(event) ==
  Sentence(event, RepoLink(event), RepoUrl(RepoFullName(event)))

ACTIVITY_ITEMS == 30   \* events.slice(0, 30)

NoActivity == [kind |-> "none", total |-> <<>>, items |-> <<>>, weeks |-> <<>>]

\* buildActivityLog(events)
buildActivityLog(events, now) ==
  IF events = <<>>
  THEN [NoActivity EXCEPT !.kind = "log"]
  ELSE [kind  |-> "log",
        total |-> <<Len(events)>>,
        items |-> [i \in 1..Min(Len(events), ACTIVITY_ITEMS) |->
                     [desc |-> formatEventDescription(events[i]),
                      time |-> timeAgo(now, NewDate(events[i].created_at))]],
        weeks |-> <<>>]

----------------------------------------------------------------------------
(* The contribution graph (three-endpoint variant with the graph) *)

DAY == 86400      \* seconds of a day; the zone of the browser has no
                  \* daylight saving, so setDate moves by whole days
WEEKS == 12       \* for (let i = 11; i >= 0; i--)

\* today.getDay(): 0 is Sunday; the epoch began on a Thursday
getDay(now) == ((now.s \div DAY) + 4) % 7

\* d.setDate(d.getDate() + n)
AddDays(d, n) == [s |-> d.s + n * DAY, ms |-> d.ms]

\* weekStart of the j-th week pushed, j = 1..WEEKS (i = WEEKS - j)
WeekStart(now, j) == AddDays(now, 0 - ((WEEKS - j) * 7) - getDay(now))

\* a test that takes the end of the week into the week
InWeekClosed(eventDate, start) ==
  ~DateLess(eventDate, start) /\ ~DateLess(AddDays(start, 7), eventDate)

\* eventDate >= weeks[i].start && eventDate < weekEnd
InWeek(eventDate, start) ==
  ~DateLess(eventDate, start) /\ DateLess(eventDate, AddDays(start, 7))

\* the inner for loop from week j on: the first week the event falls in
\* (count++; break), 0 when the loop ends without one
RECURSIVE FirstWeek(_, _, _)
FirstWeek(eventDate, now, j) ==
  IF j > WEEKS THEN 0
  ELSE IF InWeek(eventDate, WeekStart(now, j)) THEN j
       ELSE FirstWeek(eventDate, now, j + 1)

\* buildContributionData(events)
buildContributionData(events, now) ==
  [j \in 1..WEEKS |->
     [start |-> WeekStart(now, j),
      count |-> Cardinality({k \in DOMAIN events :
                   FirstWeek(NewDate(events[k].created_at), now, 1) = j})]]

\* weeks.reduce((sum, w) => sum + w.count, 0)
RECURSIVE SumCounts(_)
SumCounts(weeks) ==
  IF weeks = <<>> THEN 0 ELSE Head(weeks).count + SumCounts(Tail(weeks))

\* buildContributionGraph(weeks): the header total and the bars
buildContributionGraph(weeks) ==
  [kind |-> "graph", total |-> <<SumCounts(weeks)>>, items |-> <<>>,
   weeks |-> weeks]

\* the activity section of the variant
buildActivity(v, events, now) ==
  CASE v = "log" -> buildActivityLog(events, now)
    [] v = "graph" -> buildContributionGraph(buildContributionData(events, now))
    [] OTHER -> NoActivity

\* the sections of the container that buildHTML writes, top to bottom
Sections(v) ==
  <<"profile">>
    \o (CASE v = "log" -> <<"activity-log">>
          [] v = "graph" -> <<"contrib-graph">>
          [] OTHER -> <<>>)
    \o <<"search-container", "repos">>

----------------------------------------------------------------------------
(* The shadow root *)

NoCards == <<>>

\* kind:  which markup the shadow root holds
\* pass:  the render pass that wrote it (0: none)
\* inDoc: the element was in the document when it was written
\* at:    what the clock showed when the content was built
Empty == [kind |-> "empty", pass |-> 0, inDoc |-> FALSE, cards |-> NoCards,
          events |-> <<>>, query |-> <<>>, activity |-> NoActivity,
          sections |-> <<>>, at |-> NewDate(0)]
MissingUser == [Empty EXCEPT !.kind = "missing", !.inDoc = TRUE]
Loading(p) == [Empty EXCEPT !.kind = "loading", !.pass = p, !.inDoc = TRUE]
Failure(p, doc) == [Empty EXCEPT !.kind = "failure", !.pass = p, !.inDoc = doc]
Content(p, doc, v, repos, events, now) ==
  [kind |-> "content", pass |-> p, inDoc |-> doc,
   cards |-> buildCards(v, repos, now),
   events |-> events, query |-> <<>>,
   activity |-> buildActivity(v, events, now),
   sections |-> Sections(v), at |-> now]

----------------------------------------------------------------------------
(* Render passes *)

NoAttr == "<absent>"   \* getAttribute gives null
User == "octocat"
Attrs == {NoAttr, "", User}

\* a test for the absent attribute alone (user === null)
NoUserNullOnly(u) == u = NoAttr

\* !user
NoUser(u) == u = NoAttr \/ u = ""

\* the promises of one pass right after the fetch calls of Promise.all([...])
IssuedFetches(v) ==
  [e \in AllEndpoints |-> IF e \in Endpoints(v) THEN "pending" ELSE "none"]

IssuedCount(v) ==
  [e \in AllEndpoints |-> IF e \in Endpoints(v) THEN 1 ELSE 0]

\* what a pass has received, kept when its responses are discarded:
\* a profile or repos response that was not ok, a rejected fetch, whether
\* every fetch had settled or one had rejected, an ok events response
Seen(fetch) ==
  [notok    |-> fetch["profile"] = "notok" \/ fetch["repos"] = "notok",
   rejected |-> \E e \in AllEndpoints : fetch[e] = "rejected",
   settled  |-> \/ \E e \in AllEndpoints : fetch[e] = "rejected"
                \/ \A e \in AllEndpoints : fetch[e] # "pending",
   eventsOk |-> fetch["events"] = "ok"]

\* the promises and responses of a pass that has returned
Discarded == [e \in AllEndpoints |-> "discarded"]

\* fetch:  the promise of each endpoint: "none" (not requested), "pending",
\*         "ok" / "notok" (resolved with such a response) or "rejected"
\* seen:   Seen(fetch) as it was when the pass returned
\* writes: the kinds of display this pass wrote, in order
\* error:  what was thrown into the catch block: "fetch" (a rejected fetch
\*         or the Error of a response that is not ok), "body" (a body that
\*         could not be read or parsed), "build" (buildHTML), or "none"
NewPass(u, v) ==
  [user   |-> u,
   error  |-> "none",
   fetch  |-> IssuedFetches(v),
   issued |-> IssuedCount(v),
   pc     |-> "fetching",
   seen   |-> Seen(IssuedFetches(v)),
   writes |-> <<"loading">>]

InFlight(p) == p \in 1..Len(passes) /\ passes[p].pc # "done"

\* a render that goes on when the profile and the repositories are there
AllSettledButEvents(rec, v) ==
  rec.fetch["profile"] # "pending" /\ rec.fetch["repos"] # "pending"

\* Promise.all resolves: no promise of the pass is pending any more
AllSettled(rec, v) == \A e \in Endpoints(v) : rec.fetch[e] # "pending"

\* a pass that leaves the display alone when a later pass has started
CompleteIfNewest(p, rec, shown) ==
  /\ display' = IF p = Len(passes) THEN shown ELSE display
  /\ passes' = [passes EXCEPT ![p] =
                  [rec EXCEPT !.pc = "done",
                              !.seen = Seen(rec.fetch),
                              !.fetch = Discarded,
                              !.writes = Append(@, shown.kind)]]

\* the pass assigns shadowRoot.innerHTML for the last time and returns
Complete(p, rec, shown) ==
  /\ display' = shown
  /\ passes' = [passes EXCEPT ![p] =
                  [rec EXCEPT !.pc = "done",
                              !.seen = Seen(rec.fetch),
                              !.fetch = Discarded,
                              !.writes = Append(@, shown.kind)]]

\* a catch block that fetches once more before it gives up
CatchRetries(p, rec) ==
  IF rec.issued["profile"] < 2
  THEN /\ passes' = [passes EXCEPT ![p] =
                       [rec EXCEPT !.fetch = IssuedFetches(variant),
                                   !.issued = [e \in AllEndpoints |->
                                                 @[e] + IssuedCount(variant)[e]],
                                   !.pc = "fetching"]]
       /\ display' = display
  ELSE Complete(p, rec, Failure(p, connected))

\* catch (err) { innerHTML = ... 'Failed to load GitHub data' }
Catch(p, rec) == Complete(p, rec, Failure(p, connected))

\* the pass with an exception of the given cause on its way to the catch block
Threw(rec, cause) == [rec EXCEPT !.error = cause]

\* a render that builds the HTML outside its try block: the exception of
\* buildHTML rejects the promise of render and nothing is written
RenderContentUncaught(p, rec, events, now) ==
  IF BuildThrows(ReposBody(github))
  THEN /\ passes' = [passes EXCEPT ![p] =
                       [Threw(rec, "build") EXCEPT !.pc = "done",
                                                   !.seen = Seen(rec.fetch),
                                                   !.fetch = Discarded]]
       /\ display' = display
  ELSE Complete(p, rec,
                Content(p, connected, variant, ReposBody(github), events, now))

\* innerHTML = getStyles() + buildHTML(...); setupSearch()
\* (an exception of buildHTML leaves the display to the catch block)
RenderContent(p, rec, events, now) ==
  IF BuildThrows(ReposBody(github))
  THEN Catch(p, Threw(rec, "build"))
  ELSE Complete(p, rec,
                Content(p, connected, variant, ReposBody(github), events, now))

\* the pass stays suspended at an await
Suspend(p, rec) ==
  /\ passes' = [passes EXCEPT ![p] = rec]
  /\ display' = display

\* a render that tests profileRes.ok alone
AfterAllProfileOnly(p, rec) ==
  IF rec.fetch["profile"] # "ok"
  THEN Catch(p, rec)
  ELSE Suspend(p, [rec EXCEPT !.pc = "jsonProfile"])

\* a render that throws for an events response that is not ok as well
AfterAllEveryOk(p, rec) ==
  IF \E e \in Endpoints(variant) : rec.fetch[e] # "ok"
  THEN Catch(p, Threw(rec, "fetch"))
  ELSE Suspend(p, [rec EXCEPT !.pc = "jsonProfile"])

\* if (!profileRes.ok || !reposRes.ok) throw ...; then await profileRes.json()
AfterAll(p, rec) ==
  IF rec.fetch["profile"] # "ok" \/ rec.fetch["repos"] # "ok"
  THEN Catch(p, Threw(rec, "fetch"))
  ELSE Suspend(p, [rec EXCEPT !.pc = "jsonProfile"])

\* async render(user): the loading message and the fetch calls
Render(u) ==
  /\ display' = Loading(Len(passes) + 1)
  /\ passes' = Append(passes, NewPass(u, variant))

\* the element enters the document with user attribute u
ConnectedCallback(u, maxPasses) ==
  /\ ~connected
  /\ NoUser(u) \/ Len(passes) < maxPasses
  /\ connected' = TRUE
  /\ IF NoUser(u)
     THEN display' = MissingUser /\ passes' = passes
     ELSE Render(u)
  /\ UNCHANGED <<variant, github>>

\* a disconnectedCallback that abandons the passes in flight
DisconnectAborts ==
  /\ connected
  /\ connected' = FALSE
  /\ passes' = [p \in 1..Len(passes) |-> [passes[p] EXCEPT !.pc = "done"]]
  /\ UNCHANGED <<variant, github, display>>

\* the element leaves the document; the class has no disconnectedCallback
Disconnect ==
  /\ connected
  /\ connected' = FALSE
  /\ UNCHANGED <<variant, github, display, passes>>

\* a fetch promise of pass p resolves with a response, ok or not
FetchResolve(p, e, ok) ==
  /\ InFlight(p)
  /\ passes[p].pc = "fetching"
  /\ passes[p].fetch[e] = "pending"
  /\ LET rec == [passes[p] EXCEPT !.fetch[e] = IF ok THEN "ok" ELSE "notok"]
     IN  IF AllSettled(rec, variant)
         THEN AfterAll(p, rec)
         ELSE Suspend(p, rec)
  /\ UNCHANGED <<variant, github, connected>>

\* a rejection that is recorded while the pass goes on waiting
FetchRejectWaits(p, e) ==
  /\ InFlight(p)
  /\ passes[p].pc = "fetching"
  /\ passes[p].fetch[e] = "pending"
  /\ Suspend(p, [passes[p] EXCEPT !.fetch[e] = "rejected"])
  /\ UNCHANGED <<variant, github, connected>>

\* a fetch promise of pass p rejects: Promise.all rejects at once
FetchReject(p, e) ==
  /\ InFlight(p)
  /\ passes[p].pc = "fetching"
  /\ passes[p].fetch[e] = "pending"
  /\ Catch(p, Threw([passes[p] EXCEPT !.fetch[e] = "rejected"], "fetch"))
  /\ UNCHANGED <<variant, github, connected>>

\* await profileRes.json() settles
JsonProfile(p, good) ==
  /\ InFlight(p)
  /\ passes[p].pc = "jsonProfile"
  /\ IF good
     THEN Suspend(p, [passes[p] EXCEPT !.pc = "jsonRepos"])
     ELSE Catch(p, Threw(passes[p], "body"))
  /\ UNCHANGED <<variant, github, connected>>

\* await reposRes.json() settles; eventsRes.ok ? await eventsRes.json() : []
\* (now: what the clock shows when the content is built)
JsonRepos(p, good, now) ==
  /\ InFlight(p)
  /\ passes[p].pc = "jsonRepos"
  /\ IF ~good
     THEN Catch(p, Threw(passes[p], "body"))
     ELSE IF passes[p].fetch["events"] = "ok"
          THEN Suspend(p, [passes[p] EXCEPT !.pc = "jsonEvents"])
          ELSE RenderContent(p, passes[p], <<>>, now)
  /\ UNCHANGED <<variant, github, connected>>

\* await eventsRes.json() settles
JsonEvents(p, good, now) ==
  /\ InFlight(p)
  /\ passes[p].pc = "jsonEvents"
  /\ IF good
     THEN RenderContent(p, passes[p], EventsBody(github), now)
     ELSE Catch(p, Threw(passes[p], "body"))
  /\ UNCHANGED <<variant, github, connected>>

\* const match = name.includes(query) || desc.includes(query)
Match(card, query) == includes(card.name, query) \/ includes(card.desc, query)

\* the input listener of setupSearch, with e.target.value = q
InputSearch(q) ==
  /\ connected
  /\ display.kind = "content"
  /\ display' = [display EXCEPT
                   !.query = q,
                   !.cards = [i \in DOMAIN display.cards |->
                                [display.cards[i] EXCEPT
                                   !.shown = Match(display.cards[i],
                                                   toLowerCase(q))]]]
  /\ UNCHANGED <<variant, github, connected, passes>>

----------------------------------------------------------------------------
(* Inputs *)

RECURSIVE Strings(_, _)
Strings(alphabet, n) ==
  IF n = 0 THEN {<<>>}
  ELSE LET shorter == Strings(alphabet, n - 1)
       IN  shorter \cup {Append(s, c) : s \in shorter, c \in alphabet}

Queries == Strings(Chars, MaxQueryLen)

Names == {<<"a">>, <<"B">>, <<"a", "b">>}
Descriptions == {Null, <<"B">>, <<Quote, "b">>}

\* what the clock shows in the specifications that do not vary it
Clock == [s |-> 100000000, ms |-> 500]
Times == {Clock}

\* the clock at a whole second as well
TimesMs == {Clock, [Clock EXCEPT !.ms = 0]}

\* the payload of an event: every field missing, or every field present
NoPayload ==
  [action |-> Null, head |-> Null, ref_type |-> Null, ref |-> Null,
   number |-> Null, pr_number |-> Null, tag_name |-> Null]
FullPayload ==
  [action |-> <<"o", "p">>,
   head |-> <<"a", "b", "c", "d", "e", "f", "0", "1">>,
   ref_type |-> <<"branch">>, ref |-> <<"main">>,
   number |-> <<"7">>, pr_number |-> <<"8">>, tag_name |-> <<"v1">>]

SampleEvent ==
  [type |-> "PushEvent", repo |-> <<"octocat", "hello">>,
   created_at |-> Clock.s - 3600, payload |-> FullPayload]

EventLists == {<<>>, <<SampleEvent>>}

RepoRecords ==
  [name : Names, description : Descriptions, updated_at : 1..MaxDate,
   language : {NullLang}, stargazers_count : {0}, forks_count : {0},
   fork : {FALSE}, has_pages : {FALSE}]

\* lists of at most n repositories with distinct names
RECURSIVE RepoLists(_)
RepoLists(n) ==
  IF n = 0 THEN {<<>>}
  ELSE LET shorter == RepoLists(n - 1)
       IN  shorter \cup
           UNION {{Append(s, r) : r \in
                     {x \in RepoRecords :
                        \A i \in 1..Len(s) : s[i].name # x.name}} :
                  s \in shorter}

\* one fetched list that the API did not return in date order
SampleRepos ==
  <<[name |-> <<"a">>, description |-> Null, updated_at |-> 1,
     language |-> NullLang, stargazers_count |-> 0, forks_count |-> 0,
     fork |-> FALSE, has_pages |-> FALSE],
    [name |-> <<"B">>, description |-> <<"B">>, updated_at |-> 2,
     language |-> "Python", stargazers_count |-> 3, forks_count |-> 1,
     fork |-> TRUE, has_pages |-> FALSE]>>

InitWith(data) ==
  /\ variant \in Variants
  /\ github \in data
  /\ connected = FALSE
  /\ display = Empty
  /\ passes = <<>>

Step(maxPasses, queries, times) ==
  \/ \E u \in Attrs : ConnectedCallback(u, maxPasses)
  \/ Disconnect
  \/ \E p \in 1..Len(passes), e \in AllEndpoints, ok \in BOOLEAN :
       FetchResolve(p, e, ok)
  \/ \E p \in 1..Len(passes), e \in AllEndpoints : FetchReject(p, e)
  \/ \E p \in 1..Len(passes), good \in BOOLEAN : JsonProfile(p, good)
  \/ \E p \in 1..Len(passes), good \in BOOLEAN, now \in times :
       JsonRepos(p, good, now)
  \/ \E p \in 1..Len(passes), good \in BOOLEAN, now \in times :
       JsonEvents(p, good, now)
  \/ \E q \in queries : InputSearch(q)

\* the decimal digits of n, as characters
DigitChars == <<"0", "1", "2", "3", "4", "5", "6", "7", "8", "9">>

RECURSIVE Digits(_)
Digits(n) ==
  IF n < 10 THEN <<DigitChars[n + 1]>>
  ELSE Digits(n \div 10) \o <<DigitChars[(n % 10) + 1]>>

\* the n public repositories of a user, named r1, r2, ..., as the API
\* lists them
PublicRepos(n) ==
  [i \in 1..n |-> [name |-> <<"r">> \o Digits(i),
                   description |-> Null,
                   updated_at |-> 1 + (i % MaxDate),
                   language |-> NullLang, stargazers_count |-> 0,
                   forks_count |-> 0, fork |-> FALSE, has_pages |-> FALSE]]

(* The life of one element: overlapping passes, one fetched list *)
Init == InitWith([repos : {SampleRepos}, events : {<<SampleEvent>>}])
Next == Step(MaxPasses, {<<>>, <<"B">>}, Times)
Spec == Init /\ [][Next]_vars

(* One pass over every fetched list of at most MaxRepos repositories *)
InitCards == InitWith([repos : RepoLists(MaxRepos), events : {<<>>}])
NextCards == Step(1, Queries, Times)
SpecCards == InitCards /\ [][NextCards]_vars

(* One pass for a user with any number of public repositories *)
InitPage ==
  InitWith({[repos |-> PublicRepos(n), events |-> <<>>] :
              n \in 0..MaxPublicRepos})
NextPage == Step(1, {<<>>, <<"1">>}, Times)
SpecPage == InitPage /\ [][NextPage]_vars

(* One pass over one repository and one event of every age of interest *)
MaxCount == 2    \* the largest count of a unit among the ages

UnitSeconds == {Intervals[i].seconds : i \in DOMAIN Intervals}

\* ages in seconds: around every multiple of a unit up to MaxCount, around
\* twelve months, around zero
Ages ==
  {0 - 1, 0, 1, 59}
    \cup {k * u + e : k \in 1..MaxCount, u \in UnitSeconds, e \in {0 - 1, 0, 1}}
    \cup {12 * 2592000 + e : e \in {0 - 1, 0, 1}}

RepoAged(d) == [SampleRepos[1] EXCEPT !.updated_at = Clock.s - d]
EventAged(d) == [SampleEvent EXCEPT !.created_at = Clock.s - d]

InitTime ==
  InitWith({[repos |-> <<RepoAged(d)>>, events |-> <<EventAged(d)>>] :
              d \in Ages})
NextTime == Step(1, {<<>>}, TimesMs)
SpecTime == InitTime /\ [][NextTime]_vars

(* One pass over every list of at most MaxEvents events created at the
   edges of the twelve weeks *)
MaxEvents == 2

\* the whole seconds at and right after the start of the first week, the
\* start of the second week and the end of the last week, as the weeks lie
\* when the clock shows Clock
EdgeSeconds ==
  {d.s + e : d \in {WeekStart(Clock, 1), WeekStart(Clock, 2),
                     AddDays(WeekStart(Clock, WEEKS), 7)},
             e \in {0, 1}}

EdgeEvents == {[SampleEvent EXCEPT !.created_at = t] : t \in EdgeSeconds}

RECURSIVE EventListsUpTo(_)
EventListsUpTo(n) ==
  IF n = 0 THEN {<<>>}
  ELSE LET shorter == EventListsUpTo(n - 1)
       IN  shorter \cup {Append(l, e) : l \in shorter, e \in EdgeEvents}

InitGraph == InitWith([repos : {SampleRepos}, events : EventListsUpTo(MaxEvents)])
NextGraph == Step(1, {<<>>}, TimesMs)
SpecGraph == InitGraph /\ [][NextGraph]_vars

(* One pass over one event of every type, with and without a repository
   name, with and without a payload *)
KnownTypes ==
  {"PushEvent", "CreateEvent", "DeleteEvent", "WatchEvent", "ForkEvent",
   "IssuesEvent", "IssueCommentEvent", "PullRequestEvent",
   "PullRequestReviewEvent", "PullRequestReviewCommentEvent", "ReleaseEvent",
   "PublicEvent"}

\* types without a case of their own, and an event without a type
OtherTypes == {"GollumEvent", "MemberEvent", "<undefined>"}

LogEvents ==
  [type : KnownTypes \cup OtherTypes,
   repo : {Null, <<>>, <<"octocat", "hello">>, <<"solo">>},
   created_at : {Clock.s - 3600},
   payload : {NoPayload, FullPayload}]

InitLog == InitWith([repos : {SampleRepos}, events : {<<e>> : e \in LogEvents}])
NextLog == Step(1, {<<>>}, Times)
SpecLog == InitLog /\ [][NextLog]_vars

(* One pass over one repository of every kind: with and without a language
   (of the table or not), stars, forks, a description, GitHub Pages; a fork
   or not *)
MaxStat == 1     \* the largest stargazers_count and forks_count

BadgeRepos ==
  [name : {<<"a">>},
   description : {Null, <<>>, <<"B">>},
   updated_at : {1},
   language : {NullLang, "", "Python", "Zig"},
   stargazers_count : 0..MaxStat,
   forks_count : 0..MaxStat,
   fork : BOOLEAN,
   has_pages : BOOLEAN]

InitBadges == InitWith([repos : {<<r>> : r \in BadgeRepos}, events : {<<>>}])
NextBadges == Step(1, {<<>>}, Times)
SpecBadges == InitBadges /\ [][NextBadges]_vars

(* One pass over lists that hold a repository without a name *)
Nameless == [SampleRepos[1] EXCEPT !.name = Null]

InitThrow ==
  InitWith([repos : {SampleRepos, <<Nameless>>, <<SampleRepos[2], Nameless>>},
            events : EventLists])
NextThrow == Step(1, {<<>>, <<"B">>}, Times)
SpecThrow == InitThrow /\ [][NextThrow]_vars

----------------------------------------------------------------------------
(* Fairness *)

\* a fetch promise of pass p settles
FetchSettles(p) ==
  \/ \E e \in AllEndpoints, ok \in BOOLEAN : FetchResolve(p, e, ok)
  \/ \E e \in AllEndpoints : FetchReject(p, e)

\* a body read (response.json()) of pass p settles
BodySettles(p) ==
  \/ \E good \in BOOLEAN : JsonProfile(p, good)
  \/ \E good \in BOOLEAN, now \in Times : JsonRepos(p, good, now)
  \/ \E good \in BOOLEAN, now \in Times : JsonEvents(p, good, now)

(* The life of one element where every fetch of every pass settles;
   nothing is assumed of the body reads *)
FairNext == Step(MaxFairPasses, {<<>>, <<"B">>}, Times)
FetchFairSpec ==
  /\ Init
  /\ [][FairNext]_vars
  /\ \A p \in 1..MaxFairPasses : WF_vars(FetchSettles(p))

----------------------------------------------------------------------------
(* Properties *)

Range(s) == {s[i] : i \in DOMAIN s}
Last(s) == s[Len(s)]
PassIds == 1..Len(passes)

SomeRejected(rec) == \E e \in AllEndpoints : rec.fetch[e] = "rejected"
NonePending(rec) == \A e \in AllEndpoints : rec.fetch[e] # "pending"
Ended(rec) == rec.pc = "done"

\* the profile or the repos response is not ok, or a fetch rejected
BadFetch(rec) ==
  IF Ended(rec)
  THEN rec.seen.notok \/ rec.seen.rejected
  ELSE \/ rec.fetch["profile"] = "notok"
       \/ rec.fetch["repos"] = "notok"
       \/ SomeRejected(rec)

\* every fetch of the pass has settled, or one has rejected
AwaitOver(rec) ==
  IF Ended(rec)
  THEN rec.seen.settled
  ELSE SomeRejected(rec) \/ NonePending(rec)

\* C1: a pass whose profile or repos response is not ok, or one of whose
\* fetches rejects, never displays content, and once its fetches have all
\* settled or one has rejected it has ended with the failure message.
C1_BadFetchEndsInFailure ==
  \A p \in PassIds :
    BadFetch(passes[p]) =>
      /\ "content" \notin Range(passes[p].writes)
      /\ display.pass = p => display.kind \in {"loading", "failure"}
      /\ AwaitOver(passes[p]) =>
           /\ passes[p].pc = "done"
           /\ passes[p].writes = <<"loading", "failure">>
           /\ display.pass = p => display.kind = "failure"

C1_Witness ==
  \E p \in PassIds :
    /\ passes[p].pc = "done"
    /\ passes[p].seen.notok /\ ~passes[p].seen.rejected
    /\ display.pass = p /\ display.kind = "failure"

\* C2: every endpoint of the variant is requested when the pass starts; the
\* pass writes no final display before all its fetches have settled or one
\* has rejected, and until then what it has on display is the loading
\* message, whatever the order of the responses.
C2_JointAwait ==
  \A p \in PassIds :
    LET rec == passes[p]
    IN  /\ \A e \in Endpoints(variant) :
             rec.issued[e] = 1 /\ rec.fetch[e] # "none"
        /\ Len(rec.writes) > 1 => AwaitOver(rec)
        /\ ~AwaitOver(rec) =>
             /\ rec.writes = <<"loading">>
             /\ display.pass = p => display.kind = "loading"

C2_Witness ==
  \E p \in PassIds :
    /\ passes[p].fetch["events"] = "ok"
    /\ passes[p].fetch["repos"] = "notok"
    /\ passes[p].fetch["profile"] = "pending"
    /\ display = Loading(p)

Started(p) == Len(passes) >= p
Done(p) == Started(p) /\ passes[p].pc = "done"
FinalWrites == {<<"loading", "content">>, <<"loading", "failure">>}

\* a pass writes the loading message once and then at most one final
\* display, and a pass that has ended is never touched again
OneFinalWrite ==
  /\ [](\A p \in PassIds :
          /\ passes[p].writes \in {<<"loading">>} \cup FinalWrites
          /\ passes[p].pc = "done" <=> passes[p].writes \in FinalWrites)
  /\ [][\A p \in PassIds :
          passes[p].pc = "done" => passes'[p] = passes[p]]_vars

\* C3 as stated: once every fetch of a pass settles, the pass ends with
\* exactly one final write.
C3_FetchesSettleThenOneFinalWrite ==
  /\ OneFinalWrite
  /\ \A p \in 1..MaxFairPasses : Started(p) ~> Done(p)

\* C3: if every fetch of a pass settles and every body read it then awaits
\* (response.json()) settles, the pass leaves the loading message and writes
\* exactly one of the two final displays exactly once; after that write the
\* pass changes the display no further.
C3_FetchesAndBodiesSettleThenOneFinalWrite ==
  /\ OneFinalWrite
  /\ (\A p \in 1..MaxFairPasses : WF_vars(BodySettles(p)))
       => (\A p \in 1..MaxFairPasses : Started(p) ~> Done(p))

C3_Witness ==
  \E p \in PassIds :
    /\ passes[p].writes = <<"loading", "content">>
    /\ passes[p].seen.eventsOk
    /\ display.pass = p /\ display.kind = "content"

\* C4 as stated: when two passes are in flight at once, neither overwrites
\* state written by the other: the final write of one never replaces a
\* display that the other wrote.
C4_NoPassOverwritesAnother ==
  [][\A p, q \in PassIds :
       (/\ p # q
        /\ passes[p].pc # "done" /\ passes[q].pc # "done"
        /\ passes'[p].pc = "done")
         => display.pass # q]_vars

\* C5: a pass that still waits for a fetch, none having rejected, keeps the
\* loading message as its only write, and what it has on display changes
\* only when one of its fetches settles; taking the element out of the
\* document changes neither the display nor any pass, every pass in flight
\* can still take its next step, and every pass that ends has written its
\* final display.
C5_NoTimeoutNoCancellation ==
  /\ [](\A p \in PassIds :
          /\ (passes[p].pc = "fetching" /\ ~SomeRejected(passes[p])) =>
               /\ passes[p].writes = <<"loading">>
               /\ \E e \in Endpoints(variant) : passes[p].fetch[e] = "pending"
          /\ passes[p].pc # "done" => ENABLED (FetchSettles(p) \/ BodySettles(p))
          /\ passes[p].pc = "done" => passes[p].writes \in FinalWrites)
  /\ [][\A p \in PassIds :
          (passes[p].pc = "fetching" /\ passes'[p].fetch = passes[p].fetch) =>
             /\ passes'[p] = passes[p]
             /\ display.pass = p => (display' = display \/ display'.pass # p)]_vars
  /\ [][(connected /\ ~connected') =>
          (display' = display /\ passes' = passes)]_vars

C5_Witness ==
  \E p \in PassIds :
    /\ ~connected
    /\ passes[p].pc = "done"
    /\ display.pass = p /\ display.kind = "content" /\ ~display.inDoc

Sum3(f) == f["profile"] + f["repos"] + f["events"]

\* C6: every pass requests each endpoint of the variant exactly once; a pass
\* once started issues no further request, whatever it displays, so that
\* requests are issued by connectedCallback alone; and a new pass starts with
\* every fetch of its own pending, whatever earlier passes received, and
\* displays content only after its own profile and repos responses were ok.
C6_NoRetryNoReuse ==
  /\ [](\A p \in PassIds :
          /\ \A e \in AllEndpoints :
               passes[p].issued[e] = IF e \in Endpoints(variant) THEN 1 ELSE 0
          /\ "content" \in Range(passes[p].writes) =>
               /\ passes[p].seen.settled
               /\ ~passes[p].seen.notok /\ ~passes[p].seen.rejected)
  /\ [][/\ \A p \in PassIds : passes'[p].issued = passes[p].issued
        /\ Len(passes') >= Len(passes)
        /\ Len(passes') > Len(passes) =>
             /\ ~connected /\ connected'
             /\ Len(passes') = Len(passes) + 1
             /\ \A e \in Endpoints(variant) :
                  passes'[Len(passes')].fetch[e] = "pending"]_vars

C6_Witness ==
  /\ Len(passes) = 2
  /\ passes[1].writes = <<"loading", "failure">>
  /\ display.pass = 1
  /\ passes[2].pc = "fetching"
  /\ Sum3(passes[1].issued) = Cardinality(Endpoints(variant))

\* C7: connectedCallback with the user attribute absent or empty displays
\* the missing-attribute error and starts no pass (no fetch, no loading
\* message); with a non-empty attribute it starts a pass for that user; no
\* pass ever runs for an absent or empty user.
C7_MissingUser ==
  /\ [](\A p \in PassIds : passes[p].user \notin {NoAttr, ""})
  /\ [][\A u \in Attrs :
          ConnectedCallback(u, MaxPasses) =>
            IF u \in {NoAttr, ""}
            THEN display' = MissingUser /\ passes' = passes
            ELSE /\ Len(passes') = Len(passes) + 1
                 /\ passes'[Len(passes')].user = u
                 /\ display' = Loading(Len(passes'))]_vars

C7_Witness ==
  /\ display.kind = "missing"
  /\ connected
  /\ passes = <<>>

\* description ?? '' of the claim: a missing description counts as empty
DescriptionText(repo) ==
  IF repo.description = Null THEN <<>> ELSE repo.description

\* C8 as stated: a card is visible exactly when the lower-cased text of the
\* search box is a substring of the lower-cased name or of the lower-cased
\* description of its repository.
C8_SearchShowsExactlyTheMatches ==
  display.kind = "content" =>
    \A i \in DOMAIN display.cards :
      LET card == display.cards[i]
          q == toLowerCase(display.query)
      IN  card.shown <=>
            \/ includes(toLowerCase(card.repo.name), q)
            \/ includes(toLowerCase(DescriptionText(card.repo)), q)

\* s is a rearrangement of t
IsPermutation(s, t) ==
  /\ Len(s) = Len(t)
  /\ \A x \in Range(s) \cup Range(t) :
       Cardinality({i \in DOMAIN s : s[i] = x})
         = Cardinality({i \in DOMAIN t : t[i] = x})

CardRepos == [i \in DOMAIN display.cards |-> display.cards[i].repo]

\* C9 as stated: in the content view the cards are in non-increasing
\* updated_at order and are a rearrangement of the fetched list.
C9_CardsSortedByDate ==
  display.kind = "content" =>
    /\ \A i, j \in DOMAIN display.cards :
         i < j => display.cards[i].repo.updated_at
                    >= display.cards[j].repo.updated_at
    /\ IsPermutation(CardRepos, ReposBody(github))

\* C10 as stated: the content view has one card for each of the user's
\* public repositories.
C10_AllReposDisplayed ==
  display.kind = "content" => Len(display.cards) = Len(github.repos)

\* the units of the claim, largest first
C11_Units ==
  <<[unit |-> "year", seconds |-> 31536000],
    [unit |-> "month", seconds |-> 2592000],
    [unit |-> "day", seconds |-> 86400],
    [unit |-> "hour", seconds |-> 3600],
    [unit |-> "minute", seconds |-> 60]>>

\* the text r is what the claim gives for s elapsed seconds
C11_Expected(s, r) ==
  /\ r = JustNow <=> s < 60
  /\ s >= 60 =>
       \E i \in DOMAIN C11_Units :
         LET n == s \div C11_Units[i].seconds
         IN  /\ n >= 1
             /\ \A j \in 1..(i - 1) : s \div C11_Units[j].seconds < 1
             /\ r.count = n
             /\ r.label = C11_Units[i].unit
             /\ r.plural = "s" <=> n > 1
             /\ r.plural \in {"", "s"}
             /\ r.word = "ago"

\* whole seconds from the API timestamp t to the instant the content was built
\* (the milliseconds of the clock, 0 to 999, are cut off by the floor)
C11_Elapsed(t) == display.at.s - t

\* C11: every relative time on display (the 'Updated' label of a card, the
\* time of an activity item) is '<n> <unit> ago' for the first unit, from
\* year down to minute, of which the elapsed seconds hold at least one, with
\* the plural 's' exactly when n > 1, and 'just now' exactly when fewer than
\* 60 seconds have elapsed.
C11_TimeAgo ==
  display.kind = "content" =>
    /\ \A i \in DOMAIN display.cards :
         C11_Expected(C11_Elapsed(display.cards[i].repo.updated_at),
                      display.cards[i].updated)
    /\ \A i \in DOMAIN display.activity.items :
         C11_Expected(C11_Elapsed(display.events[i].created_at),
                      display.activity.items[i].time)

\* a card and an activity item of 360 days ago both read '12 months ago'
C11_Witness ==
  /\ display.kind = "content"
  /\ display.activity.kind = "log"
  /\ \E i \in DOMAIN display.cards \cap DOMAIN display.activity.items :
       /\ display.cards[i].updated.count = 12
       /\ display.cards[i].updated.label = "month"
       /\ display.cards[i].updated.plural = "s"
       /\ display.activity.items[i].time = display.cards[i].updated

\* start <= created_at < start + 7 days, created_at in whole seconds
C12_InWeekOf(t, start) ==
  /\ start.s < t \/ (start.s = t /\ start.ms = 0)
  /\ t < start.s + 7 * 86400 \/ (t = start.s + 7 * 86400 /\ start.ms > 0)

\* created_at lies in [start of the first bucket, start of the last + 7 days)
C12_InWindow(t, weeks) ==
  /\ weeks[1].start.s < t \/ (weeks[1].start.s = t /\ weeks[1].start.ms = 0)
  /\ LET last == weeks[Len(weeks)].start
     IN  t < last.s + 7 * 86400 \/ (t = last.s + 7 * 86400 /\ last.ms > 0)

\* C12: in the contribution graph every rendered event is counted in exactly
\* one weekly bucket, the one with start <= created_at < start + 7 days, when
\* its created_at lies in the window of the twelve buckets, and in none
\* otherwise; the counts sum to the number of in-window events, which is at
\* most the number of events fetched and is the total of the activity header.
C12_WeeklyBuckets ==
  (display.kind = "content" /\ display.activity.kind = "graph") =>
    LET weeks == display.activity.weeks
        events == display.events
        inWindow == {k \in DOMAIN events :
                       C12_InWindow(events[k].created_at, weeks)}
    IN  /\ Len(weeks) = 12
        /\ \A j \in DOMAIN weeks :
             weeks[j].count =
               Cardinality({k \in DOMAIN events :
                  C12_InWeekOf(events[k].created_at, weeks[j].start)})
        /\ \A k \in DOMAIN events :
             Cardinality({j \in DOMAIN weeks :
                C12_InWeekOf(events[k].created_at, weeks[j].start)})
               = IF k \in inWindow THEN 1 ELSE 0
        /\ SumCounts(weeks) = Cardinality(inWindow)
        /\ Cardinality(inWindow) <= Len(github.events)
        /\ display.activity.total = <<Cardinality(inWindow)>>

\* two events were fetched: one at the very start of the second week, counted
\* there, and one at the end of the last week, counted nowhere
C12_Witness ==
  /\ display.kind = "content" /\ display.activity.kind = "graph"
  /\ Len(display.events) = 2
  /\ display.at.ms = 0
  /\ display.activity.weeks[2].start.s = display.events[1].created_at
  /\ display.activity.weeks[2].count = 1
  /\ display.activity.total = <<1>>

\* the sentence of the claim for each type that has one of its own
C13_Phrase ==
  [t \in {"PushEvent", "CreateEvent", "DeleteEvent", "WatchEvent",
          "ForkEvent", "IssueCommentEvent", "PullRequestReviewEvent",
          "PullRequestReviewCommentEvent", "PublicEvent"} |->
     CASE t = "PushEvent" -> "Pushed to"
       [] t = "CreateEvent" -> "Created"
       [] t = "DeleteEvent" -> "Deleted"
       [] t = "WatchEvent" -> "Starred"
       [] t = "ForkEvent" -> "Forked"
       [] t = "IssueCommentEvent" -> "Commented on issue in"
       [] t = "PullRequestReviewEvent" -> "Reviewed PR in"
       [] t = "PullRequestReviewCommentEvent" -> "Commented on PR in"
       [] t = "PublicEvent" -> "Made"]

\* the sentences '<Action> ... in'
C13_ActionPhrase ==
  [t \in {"IssuesEvent", "PullRequestEvent", "ReleaseEvent"} |->
     CASE t = "IssuesEvent" -> "issue in"
       [] t = "PullRequestEvent" -> "PR in"
       [] t = "ReleaseEvent" -> "release in"]

\* text is the action with a capital first letter (nothing without an action)
C13_IsAction(text, action) ==
  IF action = Null THEN text = <<>>
  ELSE /\ Len(text) = Len(action)
       /\ <<action[1], text[1]>> \in {<<"o", "O">>, <<"b", "B">>}
       /\ Tail(text) = Tail(action)

\* desc is the sentence of the claim for the event
C13_Describes(desc, event) ==
  LET name == IF event.repo \in {Null, <<>>} THEN <<"unknown">>
              ELSE event.repo
  IN  /\ Len(desc) >= 2
      /\ \E k \in DOMAIN desc :
           /\ desc[k].tag = "a"
           /\ desc[k].href = <<"https://github.com">> \o name
           /\ desc[k].text = (IF Len(name) >= 2 THEN <<name[2]>> ELSE name)
      /\ desc[1].tag = "text"
      /\ IF event.type \in DOMAIN C13_Phrase
         THEN desc[1].text = <<C13_Phrase[event.type]>>
         ELSE IF event.type \in DOMAIN C13_ActionPhrase
         THEN /\ C13_IsAction(desc[1].text, event.payload.action)
              /\ desc[2] = [tag |-> "text", href |-> <<>>,
                            text |-> <<C13_ActionPhrase[event.type]>>]
         ELSE desc[1].text = <<"Activity in">> /\ Len(desc) = 2
      /\ event.type = "PublicEvent" =>
           desc[3] = [tag |-> "text", href |-> <<>>, text |-> <<"public">>]

\* C13: every event of the activity log is described by the sentence that the
\* claim gives for its type ('Activity in' for a type without one), and the
\* sentence holds the link to the event's repository, to 'unknown' when the
\* event has no repository name; every event gets an item, whatever its type.
C13_EventSentences ==
  (display.kind = "content" /\ display.activity.kind = "log") =>
    /\ Len(display.activity.items) = Min(Len(display.events), 30)
    /\ \A i \in DOMAIN display.activity.items :
         C13_Describes(display.activity.items[i].desc, display.events[i])

\* an event of an unlisted type and without a repository name on display
C13_Witness ==
  /\ display.kind = "content" /\ display.activity.kind = "log"
  /\ \E i \in DOMAIN display.activity.items :
       /\ display.events[i].type = "GollumEvent"
       /\ display.events[i].repo = Null
       /\ display.activity.items[i].desc[2].text = <<"unknown">>

\* C14: every card has the 'Updated <relative time>' label; it has the
\* language badge exactly when the language is non-empty, coloured from
\* LANG_COLORS or '#8b949e' for a language not in the table; the star stat
\* exactly when stargazers_count is non-zero, the fork stat exactly when
\* forks_count is non-zero, the 'Fork' badge exactly when repo.fork is true,
\* and the description paragraph exactly when the description is non-empty.
C14_CardParts ==
  display.kind = "content" =>
    \A i \in DOMAIN display.cards :
      LET card == display.cards[i]
          repo == card.repo
      IN  /\ card.updated.word \in {"ago", "just now"}
          /\ card.lang # <<>> <=> repo.language \notin {"<null>", ""}
          /\ card.lang # <<>> =>
               /\ card.lang[1].language = repo.language
               /\ card.lang[1].color =
                    IF repo.language \in DOMAIN LANG_COLORS
                    THEN LANG_COLORS[repo.language] ELSE "#8b949e"
          /\ card.stars # <<>> <=> repo.stargazers_count # 0
          /\ card.stars # <<>> => card.stars = <<repo.stargazers_count>>
          /\ card.forks # <<>> <=> repo.forks_count # 0
          /\ card.forks # <<>> => card.forks = <<repo.forks_count>>
          /\ card.forkBadge <=> repo.fork
          /\ card.descPara # <<>> <=> repo.description \notin {Null, <<>>}
          /\ card.descPara # <<>> => card.descPara = <<repo.description>>

\* a forked repository in a language outside the table, with a star and no
\* fork of its own and an empty description
C14_Witness ==
  /\ display.kind = "content"
  /\ \E i \in DOMAIN display.cards :
       LET card == display.cards[i]
       IN  /\ card.repo.language = "Zig" /\ card.lang[1].color = "#8b949e"
           /\ card.stars = <<1>> /\ card.forks = <<>>
           /\ card.forkBadge
           /\ card.repo.description = <<>> /\ card.descPara = <<>>

\* C15 as stated: the content view has a Projects section above the grid of
\* all repositories whenever a fetched repository has GitHub Pages.
C15_ProjectsSection ==
  (/\ display.kind = "content"
   /\ \E i \in DOMAIN display.cards : display.cards[i].repo.has_pages)
    => \E k, m \in DOMAIN display.sections :
         /\ display.sections[k] = "projects"
         /\ display.sections[m] = "repos"
         /\ k < m

\* the pass got ok profile and repos responses and an events response
\* that was not ok, and no fetch of it rejected
C16_OnlyEventsNotOk(rec) ==
  /\ variant # "two"
  /\ IF rec.pc = "done"
     THEN /\ rec.seen.settled /\ ~rec.seen.rejected
          /\ ~rec.seen.notok /\ ~rec.seen.eventsOk
     ELSE /\ rec.fetch["profile"] = "ok" /\ rec.fetch["repos"] = "ok"
          /\ rec.fetch["events"] = "notok"

\* C16: in the three-endpoint variants a pass with ok profile and repos
\* responses and an events response that is not ok goes on to read the two
\* bodies, never reads the events body, and, unless one of those two reads
\* fails, ends in the content view rendered with an empty event list; the
\* Error of render ('Failed to fetch') is thrown only for a profile or repos
\* response that is not ok.
C16_EventsNotOkStillContent ==
  \A p \in PassIds :
    LET rec == passes[p]
    IN  /\ C16_OnlyEventsNotOk(rec) =>
             /\ rec.pc \in {"jsonProfile", "jsonRepos", "done"}
             /\ rec.error \in {"none", "body"}
             /\ (rec.pc = "done" /\ rec.error = "none") =>
                  /\ rec.writes = <<"loading", "content">>
                  /\ (display.pass = p /\ display.kind = "content") =>
                       /\ display.events = <<>>
                       /\ display.activity.items = <<>>
                       /\ display.activity.total \in {<<>>, <<0>>}
        /\ (rec.pc # "done" /\ rec.fetch["events"] = "notok") =>
             rec.pc = "fetching" \/ C16_OnlyEventsNotOk(rec)

C16_Witness ==
  \E p \in PassIds :
    /\ variant = "graph"
    /\ passes[p].pc = "done"
    /\ C16_OnlyEventsNotOk(passes[p])
    /\ display.pass = p /\ display.kind = "content"
    /\ display.events = <<>> /\ github.events # <<>>
    /\ display.activity.total = <<0>>

\* the step ends pass p
C17_Ends(p) == passes[p].pc # "done" /\ passes'[p].pc = "done"

\* C17 as stated, for a pass that is the only pass started so far (it
\* overlaps no other): content and failure are written only over that pass's
\* loading message; loading is entered only by connectedCallback with a
\* non-empty user attribute; and a connectedCallback that starts a pass
\* replaces whatever is displayed with loading.
C17_Lifecycle ==
  [][/\ (Len(passes) = 1 /\ C17_Ends(1)) =>
          /\ display = Loading(1)
          /\ display'.kind \in {"content", "failure"} /\ display'.pass = 1
     /\ (display'.kind = "loading" /\ display' # display) =>
          /\ ~connected /\ connected'
          /\ Len(passes') = Len(passes) + 1
          /\ passes'[Len(passes')].user \notin {NoAttr, ""}
     /\ Len(passes') > Len(passes) => display' = Loading(Len(passes'))]_vars

\* C18: the display is the result of the pass that completed last,
\* whichever started last: a pass that completes puts its own result on
\* display, whatever passes started after it; a result on display is the
\* final write of a completed pass; and between completions only a
\* connectedCallback changes which pass the display belongs to.
C18_LastCompletedWins ==
  /\ [](display.kind \in {"content", "failure"} =>
          /\ display.pass \in PassIds
          /\ passes[display.pass].pc = "done"
          /\ Last(passes[display.pass].writes) = display.kind)
  /\ [][\A p \in PassIds :
          (passes[p].pc # "done" /\ passes'[p].pc = "done") =>
            /\ display'.pass = p
            /\ display'.kind \in {"content", "failure"}
            /\ display'.kind = Last(passes'[p].writes)]_vars
  /\ [][(/\ Len(passes') = Len(passes)
         /\ \A p \in PassIds : passes'[p].pc = passes[p].pc)
          => (display'.pass = display.pass \/ display'.kind = "missing")]_vars

\* both passes have completed; the pass started first completed last and its
\* content has replaced the failure message of the pass started after it
C18_Witness ==
  /\ Len(passes) = 2
  /\ passes[1].pc = "done" /\ passes[2].pc = "done"
  /\ passes[2].writes = <<"loading", "failure">>
  /\ display.pass = 1 /\ display.kind = "content"

\* C19: an exception raised after the fetches have settled (a body that
\* cannot be read, buildHTML meeting a repository without a name) ends the
\* pass with the failure message on display; a fetched list that holds a
\* repository without a name is never displayed; and every pass that has
\* returned has written a final display, so none is left on the loading
\* message by an exception that escaped render.
C19_ExceptionsCaught ==
  /\ [](\A p \in PassIds :
          LET rec == passes[p]
          IN  /\ rec.error \in {"body", "build"} =>
                   /\ rec.pc = "done"
                   /\ rec.seen.settled /\ ~rec.seen.rejected /\ ~rec.seen.notok
                   /\ rec.writes = <<"loading", "failure">>
                   /\ display.pass = p => display.kind = "failure"
              /\ rec.pc = "done" =>
                   /\ Len(rec.writes) = 2
                   /\ rec.writes[2] \in {"content", "failure"}
                   /\ rec.writes[2] = "failure" <=> rec.error # "none"
              /\ (\E i \in DOMAIN github.repos : github.repos[i].name = Null)
                   => "content" \notin Range(rec.writes))
  /\ [][\A p \in PassIds :
          (passes[p].pc \in {"jsonProfile", "jsonRepos", "jsonEvents"}
             /\ passes'[p] # passes[p]) =>
            \/ passes'[p].pc \in {"jsonRepos", "jsonEvents"}
            \/ /\ passes'[p].pc = "done"
               /\ display'.pass = p
               /\ display'.kind \in {"content", "failure"}]_vars

\* buildHTML threw on a repository without a name, after every body was read
C19_Witness ==
  \E p \in PassIds :
    /\ passes[p].error = "build"
    /\ passes[p].seen.eventsOk
    /\ github.repos[Len(github.repos)].name = Null
    /\ display.pass = p /\ display.kind = "failure"

====
